---- MODULE Spec2Model ----
(***************************************************************************)
(* A model of database/mysql/databaseconnection.go: the MySQL connector of *)
(* eveslackkills.  The state is the connection handle, the tables the      *)
(* connector reads and writes, and the models.Corporation values its       *)
(* callers hold.  Every method of DatabaseConnection is one action.        *)
(***************************************************************************)
EXTENDS Integers, Sequences, FiniteSets, TLC

VARIABLES
    conn,            \* c.conn: "nil" until a Connect succeeded, then "open"
    corporations,    \* table corporations: id -> row
    ignoredregions,  \* table ignoredregions: set of [corporationID, regionid]
    ent,             \* per caller: <<>> (no entity) or <<models.Corporation>>
    last,            \* the last call: who, what, its outcome and what it returned
    pend,            \* per caller: <<>> or <<the LoadCorporation call in progress>>
    scan,            \* per caller: <<>> or <<the LoadAllCorporations call in progress>>
    hist,            \* history: the saves of each caller's entity (see NoHist)
    race             \* history: each caller's load-change-save (see NoRace)

vars == <<conn, corporations, ignoredregions, ent, last, pend, scan, hist, race>>

----------------------------------------------------------------------------
(* Bounds of the model *)

\* the corporations table holds at most MaxRows rows
MaxRows == 2

Procs == {1, 2}
\* the caller of the sequential specification
Sequential == {1}
\* the values of the cursors lastkillid and lastlossid
Cursors == {0, 42}
EveIDs == {98765, 98766}
EntityIDs == 0..(MaxRows + 1)
Regions == {10000002, 10000003}
ShipTypeIDs == {587, 588}
SolarSystemIDs == {30000142, 30000143}
CursorFields == {"LastKillID", "LastLossID"}
MutableFields == {"EVECorporationID", "LastKillID", "LastLossID"}

----------------------------------------------------------------------------
(* Tables *)

\* static reference data read by QueryShipName and QueryRegionID
invTypes == [t \in {587} |-> "Rifter"]
mapSolarSystems == [s \in {30000142} |-> 10000002]

\* name, killcomment, losscomment of a row the connector did not write
StoredText == [name |-> "Corp", killcomment |-> "gf", losscomment |-> "rip"]
\* the columns an INSERT of the connector does not list take the column default
DefaultText == [name |-> "", killcomment |-> "", losscomment |-> ""]

Row(eve, kill, loss, text) ==
    [evecorporationid |-> eve, lastkillid |-> kill, lastlossid |-> loss,
     name |-> text.name, killcomment |-> text.killcomment,
     losscomment |-> text.losscomment]

EmptyTable == [i \in {} |-> Row(0, 0, 0, DefaultText)]

\* the contents the tables may have when the program starts
InitialCorporations ==
    {EmptyTable,
     [i \in {1} |-> Row(98765, 0, 0, StoredText)],
     [i \in {1, 2} |-> Row(IF i = 1 THEN 98765 ELSE 98766, 0, 0, StoredText)]}

InitialIgnoredRegions ==
    {{},
     {[corporationID |-> 1, regionid |-> 10000002],
      [corporationID |-> 1, regionid |-> 10000003]},
     {[corporationID |-> 1, regionid |-> 10000002],
      [corporationID |-> 2, regionid |-> 10000003]}}

----------------------------------------------------------------------------
(* Helpers *)

Max(S) == CHOOSE x \in S : \A y \in S : y <= x

Range(s) == {s[i] : i \in 1..Len(s)}

\* a select without ORDER BY returns its rows in an order the storage chooses:
\* the orders of a set of rows, and the rows of S in a given order
Orders(S) == {s \in [1..Cardinality(S) -> S] : Range(s) = S}
InOrder(order, S) == SelectSeq(order, LAMBDA x : x \in S)

Stmt(text, arg) == [stmt |-> text, arg |-> arg]

\* the result of a call: what it returned and the statements it ran
Result(outcome, ret, stmts) == [outcome |-> outcome, ret |-> ret, stmts |-> stmts]

----------------------------------------------------------------------------
(* models.Corporation and the statements of the connector *)

Entity(id, eve, kill, loss, text, regions) ==
    [ID |-> id, EVECorporationID |-> eve, LastKillID |-> kill,
     LastLossID |-> loss, Name |-> text.name, KillComment |-> text.killcomment,
     LossComment |-> text.losscomment, IgnoredRegions |-> regions]

\* sqlx scans the selected columns of one row into a models.Corporation
ScanCorporation(id, row) ==
    Entity(id, row.evecorporationid, row.lastkillid, row.lastlossid,
           [name |-> row.name, killcomment |-> row.killcomment,
            losscomment |-> row.losscomment], <<>>)

\* SELECT regionid FROM ignoredregions WHERE corporationID=?
\* order: the order the storage returns the regions in
SelectIgnoredRegions(ign, corporationID, order) ==
    InOrder(order,
            {r.regionid : r \in {x \in ign : x.corporationID = corporationID}})

\* LoadAllIgnoredRegionsForCorporation; fail: the select fails
LoadAllIgnoredRegionsForCorporation(ign, corporationID, order, fail) ==
    LET q == <<Stmt("SELECT regionid FROM ignoredregions WHERE corporationID=?",
                    corporationID)>>
    IN  IF fail
        THEN Result("err", <<>>, q)
        ELSE Result("ok", SelectIgnoredRegions(ign, corporationID, order), q)

\* the first statement of LoadCorporation: c.conn.Get of the row, which is
\* sql.ErrNoRows when there is none; fail: the select fails
LoadCorporationGetNoRowsIgnored(corps, corporationID, fail) ==
    LET q == <<Stmt("SELECT ... FROM corporations WHERE id=?", corporationID)>>
    IN  IF fail
        THEN Result("err", <<>>, q)
        ELSE IF corporationID \in DOMAIN corps
        THEN Result("ok", <<ScanCorporation(corporationID, corps[corporationID])>>, q)
        ELSE Result("ok", <<Entity(0, 0, 0, 0, DefaultText, <<>>)>>, q)

LoadCorporationGet(corps, corporationID, fail) ==
    LET q == <<Stmt("SELECT ... FROM corporations WHERE id=?", corporationID)>>
    IN  IF fail \/ corporationID \notin DOMAIN corps
        THEN Result("err", <<>>, q)
        ELSE Result("ok", <<ScanCorporation(corporationID, corps[corporationID])>>, q)

\* the rest of LoadCorporation, given the row and the result r of the load of
\* its ignored regions
LoadCorporationReturn(corporation, stmts, r) ==
    IF r.outcome = "err"
    THEN Result("err", <<>>, stmts \o r.stmts)
    ELSE Result("ok", <<[corporation EXCEPT !.IgnoredRegions = r.ret]>>,
                stmts \o r.stmts)

\* LoadCorporation with both statements run on the same tables; fault: the
\* number of the statement that fails, 0 for none
LoadCorporation(corps, ign, corporationID, order, fault) ==
    LET g == LoadCorporationGet(corps, corporationID, fault = 1)
    IN  IF g.outcome = "err"
        THEN g
        ELSE LoadCorporationReturn(
                 g.ret[1], g.stmts,
                 LoadAllIgnoredRegionsForCorporation(ign, g.ret[1].ID, order,
                                                     fault = 2))

\* the first statement of LoadAllCorporations: c.conn.Select of all rows; ids:
\* the order the storage returns the rows in, fail: the select fails
LoadAllCorporationsSelect(corps, ids, fail) ==
    LET q == <<Stmt("SELECT ... FROM corporations", 0)>>
    IN  IF fail
        THEN Result("err", <<>>, q)
        ELSE Result("ok",
                    [k \in 1..Len(ids) |-> ScanCorporation(ids[k], corps[ids[k]])],
                    q)

\* one pass of the loop of LoadAllCorporations: the secondary load of the i-th
\* selected row; order: the order the storage returns regions in
LoadRegionsStepSkipping(list, i, ign, order, fail) ==
    LET r == LoadAllIgnoredRegionsForCorporation(ign, list[i].ID, order, fail)
    IN  IF r.outcome = "err"
        THEN [outcome |-> "ok", list |-> list, stmts |-> r.stmts]
        ELSE [outcome |-> "ok",
              list |-> [list EXCEPT ![i] = [@ EXCEPT !.IgnoredRegions = r.ret]],
              stmts |-> r.stmts]

LoadRegionsStep(list, i, ign, order, fail) ==
    LET r == LoadAllIgnoredRegionsForCorporation(ign, list[i].ID, order, fail)
    IN  IF r.outcome = "err"
        THEN [outcome |-> "err", list |-> <<>>, stmts |-> r.stmts]
        ELSE [outcome |-> "ok",
              list |-> [list EXCEPT ![i] = [@ EXCEPT !.IgnoredRegions = r.ret]],
              stmts |-> r.stmts]

\* the loop of LoadAllCorporations over the selected rows, from the i-th on,
\* run on the same table; the secondary load of the i-th row is statement
\* i + 1 of the call
RECURSIVE LoadRegionsLoop(_, _, _, _, _, _)
LoadRegionsLoop(list, i, ign, order, fault, stmts) ==
    IF i > Len(list)
    THEN Result("ok", list, stmts)
    ELSE LET r == LoadRegionsStep(list, i, ign, order, fault = i + 1)
         IN  IF r.outcome = "err"
             THEN Result("err", <<>>, stmts \o r.stmts)
             ELSE LoadRegionsLoop(r.list, i + 1, ign, order, fault,
                                  stmts \o r.stmts)

\* LoadAllCorporations with all its statements run on the same tables; fault:
\* the number of the statement that fails, 0 for none
LoadAllCorporations(corps, ign, ids, order, fault) ==
    LET g == LoadAllCorporationsSelect(corps, ids, fault = 1)
    IN  IF g.outcome = "err"
        THEN g
        ELSE LoadRegionsLoop(g.ret, 1, ign, order, fault, g.stmts)

\* QueryShipName: one row of invTypes, sql.ErrNoRows when there is none
QueryShipName(shipTypeID, fail) ==
    LET q == <<Stmt("SELECT typeName FROM invTypes WHERE typeID=?", shipTypeID)>>
    IN  IF fail \/ shipTypeID \notin DOMAIN invTypes
        THEN Result("err", <<"">>, q)
        ELSE Result("ok", <<invTypes[shipTypeID]>>, q)

\* QueryRegionID: one row of mapSolarSystems, -1 with the error
QueryRegionID(solarSystemID, fail) ==
    LET q == <<Stmt("SELECT regionID FROM mapSolarSystems WHERE solarSystemID=?",
                    solarSystemID)>>
    IN  IF fail \/ solarSystemID \notin DOMAIN mapSolarSystems
        THEN Result("err", <<-1>>, q)
        ELSE Result("ok", <<mapSolarSystems[solarSystemID]>>, q)

\* RawQuery hands any statement to c.conn.Query: a select returns its rows, a
\* statement that writes is executed and returns no row
RawSelects == {"SELECT * FROM ignoredregions", "SELECT id FROM corporations"}
RawWrites ==
    {"UPDATE corporations SET evecorporationid=98766",
     "TRUNCATE TABLE corporations",
     "DELETE FROM ignoredregions",
     "UPDATE ignoredregions SET corporationID=2 WHERE corporationID=1 AND regionid=10000002"}
RawQueries == RawSelects \cup RawWrites

\* the orders the storage may return the rows of the query in
RawOrders(corps, ign, query) ==
    IF query = "SELECT id FROM corporations" THEN Orders(DOMAIN corps)
    ELSE IF query = "SELECT * FROM ignoredregions" THEN Orders(ign)
    ELSE {<<>>}

\* the rows of the result set, each a map from column name to value
RawRows(corps, ign, query, order) ==
    IF query = "SELECT id FROM corporations"
    THEN [k \in 1..Len(order) |-> [id |-> order[k]]]
    ELSE IF query = "SELECT * FROM ignoredregions"
    THEN order
    ELSE <<>>

\* rows.Columns() of the result set
RawColumns(query) ==
    IF query = "SELECT id FROM corporations" THEN <<"id">>
    ELSE IF query = "SELECT * FROM ignoredregions"
    THEN <<"corporationID", "regionid">>
    ELSE <<>>

\* the table corporations after the statement
RawExec(corps, query) ==
    IF query = "UPDATE corporations SET evecorporationid=98766"
    THEN [i \in DOMAIN corps |-> [corps[i] EXCEPT !.evecorporationid = 98766]]
    ELSE IF query = "TRUNCATE TABLE corporations"
    THEN EmptyTable
    ELSE corps

\* the table ignoredregions after the statement
RawExecRegions(ign, query) ==
    IF query = "DELETE FROM ignoredregions"
    THEN {}
    ELSE IF query = "UPDATE ignoredregions SET corporationID=2 WHERE corporationID=1 AND regionid=10000002"
    THEN {IF r.corporationID = 1 /\ r.regionid = 10000002
          THEN [r EXCEPT !.corporationID = 2] ELSE r : r \in ign}
    ELSE ign

\* the nil interface{} a value of the scan buffer holds before any Scan
Nil == -1

\* what may go wrong in a call on a result set of n rows: nothing; c.conn.Query
\* fails; rows.Columns() fails (its error is dropped); rows.Next() ends the
\* loop at the k-th row (rows.Err() is not consulted); rows.Scan of the k-th
\* row fails at its c-th column (its error is dropped)
RawFaults(query, n) ==
    {[kind |-> x, k |-> 0, c |-> 0] : x \in {"none", "query", "columns"}}
    \cup {[kind |-> "next", k |-> k, c |-> 0] : k \in 1..n}
    \cup {[kind |-> "scan", k |-> k, c |-> c] :
             k \in 1..n, c \in 1..Len(RawColumns(query))}

\* the loop over rows.Next(); values: the scan buffer, which is not reset
\* between rows, so that a Scan that fails at a column leaves in this and the
\* later columns what the buffer held
RECURSIVE RawLoop(_, _, _, _, _, _)
RawLoop(rows, k, values, columns, fault, results) ==
    IF k > Len(rows) \/ (fault.kind = "next" /\ fault.k = k)
    THEN results
    ELSE LET scanned ==
                 IF fault.kind = "scan" /\ fault.k = k
                 THEN [i \in 1..Len(columns) |->
                          IF i < fault.c THEN rows[k][columns[i]] ELSE values[i]]
                 ELSE [i \in 1..Len(columns) |-> rows[k][columns[i]]]
             resultRow == [col \in Range(columns) |->
                              scanned[CHOOSE i \in 1..Len(columns) :
                                         columns[i] = col]]
         IN  RawLoop(rows, k + 1, scanned, columns, fault,
                     Append(results, resultRow))

\* RawQuery; corps, ign: the tables after the call. rows.Columns() fails only
\* on a result set that is closed, for which rows.Next() is false: no row.
RawQuery(corps, ign, query, order, fault) ==
    IF fault.kind = "query"
    THEN [outcome |-> "err", ret |-> <<>>, stmts |-> <<Stmt(query, 0)>>,
          corps |-> corps, ign |-> ign]
    ELSE [outcome |-> "ok",
          ret |-> IF fault.kind = "columns"
                  THEN <<>>
                  ELSE RawLoop(RawRows(corps, ign, query, order), 1,
                               [i \in 1..Len(RawColumns(query)) |-> Nil],
                               RawColumns(query), fault, <<>>),
          stmts |-> <<Stmt(query, 0)>>,
          corps |-> RawExec(corps, query),
          ign |-> RawExecRegions(ign, query)]

----------------------------------------------------------------------------
(* SaveCorporation *)

\* the id the storage assigns to the next inserted row (AUTO_INCREMENT)
AutoIncrement(corps) == IF DOMAIN corps = {} THEN 1 ELSE Max(DOMAIN corps) + 1

\* UPDATE corporations SET evecorporationid=?, lastkillid=?, lastlossid=? WHERE id=?
ExecUpdateKeepingEve(corps, eve, kill, loss, id) ==
    IF id \in DOMAIN corps
    THEN [corps EXCEPT ![id] = [@ EXCEPT !.lastkillid = kill, !.lastlossid = loss]]
    ELSE corps

ExecUpdateSwapped(corps, eve, kill, loss, id) ==
    IF id \in DOMAIN corps
    THEN [corps EXCEPT ![id] = [@ EXCEPT !.evecorporationid = eve,
                                         !.lastkillid = loss,
                                         !.lastlossid = kill]]
    ELSE corps

ExecUpdateAllRows(corps, eve, kill, loss, id) ==
    [i \in DOMAIN corps |-> [corps[i] EXCEPT !.evecorporationid = eve,
                                             !.lastkillid = kill,
                                             !.lastlossid = loss]]

ExecUpdateUpserting(corps, eve, kill, loss, id) ==
    [i \in DOMAIN corps \cup {id} |->
        IF i = id
        THEN IF id \in DOMAIN corps
             THEN [corps[id] EXCEPT !.evecorporationid = eve,
                                    !.lastkillid = kill, !.lastlossid = loss]
             ELSE Row(eve, kill, loss, DefaultText)
        ELSE corps[i]]

ExecUpdate(corps, eve, kill, loss, id) ==
    IF id \in DOMAIN corps
    THEN [corps EXCEPT ![id] = [@ EXCEPT !.evecorporationid = eve,
                                         !.lastkillid = kill,
                                         !.lastlossid = loss]]
    ELSE corps

\* INSERT INTO corporations(evecorporationid, lastkillid, lastlossid) VALUES(?, ?, ?)
ExecInsertSwapped(corps, eve, kill, loss) ==
    [i \in DOMAIN corps \cup {AutoIncrement(corps)} |->
        IF i \in DOMAIN corps THEN corps[i] ELSE Row(eve, loss, kill, DefaultText)]

ExecInsert(corps, eve, kill, loss) ==
    [i \in DOMAIN corps \cup {AutoIncrement(corps)} |->
        IF i \in DOMAIN corps THEN corps[i] ELSE Row(eve, kill, loss, DefaultText)]

SaveResult(outcome, ret, stmts, corps, corporation) ==
    [outcome |-> outcome, ret |-> ret, stmts |-> stmts, corps |-> corps,
     corporation |-> corporation]

\* SaveCorporation without the write-back of the assigned id
SaveCorporationNoWriteBack(corps, corporation, fault) ==
    LET c == corporation
    IN  IF c.ID > 0
        THEN IF fault = 1
             THEN SaveResult("err", <<>>, <<Stmt("UPDATE corporations", c.ID)>>,
                             corps, c)
             ELSE SaveResult("ok", <<c>>, <<Stmt("UPDATE corporations", c.ID)>>,
                             ExecUpdate(corps, c.EVECorporationID, c.LastKillID,
                                        c.LastLossID, c.ID), c)
        ELSE IF fault = 1
             THEN SaveResult("err", <<>>, <<Stmt("INSERT INTO corporations", 0)>>,
                             corps, c)
             ELSE SaveResult("ok", <<c>>,
                             <<Stmt("INSERT INTO corporations", 0),
                               Stmt("LastInsertId", 0)>>,
                             ExecInsert(corps, c.EVECorporationID, c.LastKillID,
                                        c.LastLossID), c)

\* SaveCorporation; fault: the number of the step that fails, 0 for none.
\* corps: the table after the call; corporation: the caller's entity after it
SaveCorporation(corps, corporation, fault) ==
    LET c == corporation
        update == <<Stmt("UPDATE corporations", c.ID)>>
        insert == <<Stmt("INSERT INTO corporations", 0)>>
        inserted == ExecInsert(corps, c.EVECorporationID, c.LastKillID,
                               c.LastLossID)
        lastInsertedID == AutoIncrement(corps)
        saved == [c EXCEPT !.ID = lastInsertedID]
    IN  IF c.ID > 0
        THEN IF fault = 1
             THEN SaveResult("err", <<>>, update, corps, c)
             ELSE SaveResult("ok", <<c>>, update,
                             ExecUpdate(corps, c.EVECorporationID, c.LastKillID,
                                        c.LastLossID, c.ID), c)
        ELSE IF fault = 1
             THEN SaveResult("err", <<>>, insert, corps, c)
             ELSE IF fault = 2
             THEN SaveResult("err", <<>>, insert \o <<Stmt("LastInsertId", 0)>>,
                             inserted, c)
             ELSE SaveResult("ok", <<saved>>,
                             insert \o <<Stmt("LastInsertId", 0)>>, inserted, saved)

----------------------------------------------------------------------------
(* State *)

Call(op, p, arg, r, roundtrip) ==
    [op |-> op, p |-> p, arg |-> arg, outcome |-> r.outcome, ret |-> r.ret,
     stmts |-> r.stmts, roundtrip |-> roundtrip]

NoCall == Call("none", 0, 0, Result("ok", <<>>, <<>>), FALSE)

\* a method called on the nil *sqlx.DB: a nil pointer dereference, no statement
NilHandle == Result("panic", <<>>, <<>>)

\* a panic is not recovered: the process ends
Running == last.outcome # "panic"

\* the caller is inside LoadCorporation, inside LoadAllCorporations, in no call
Loading(p) == pend[p] # <<>>
Listing(p) == scan[p] # <<>>
Idle(p) == ~Loading(p) /\ ~Listing(p)

Held(p) == ent[p] # <<>>
E(p) == ent[p][1]

\* what the callers' structs carry for name, comments and IgnoredRegions
CarriedText == [name |-> "X", killcomment |-> "kx", losscomment |-> "lx"]
CarriedRegions == <<10000002>>

\* what is remembered of the saves of a caller's entity: how the caller got it
\* ("unsaved": built with the ID unset, "given": built with an ID, "loaded"),
\* the rows inserted for it and whether a save of it failed
NoHist == [origin |-> "none", inserts |-> 0, failed |-> FALSE]

\* what is remembered of a caller's load-change-save: the fields it changed
\* since the load, whether a save has stored them, and whether another
\* caller's save wrote the row since the load read it (stale), or since the
\* load in progress read it (early)
NoRace == [dirty |-> {}, saved |-> FALSE, stale |-> FALSE, early |-> FALSE]

Init ==
    /\ conn = "nil"
    /\ corporations \in InitialCorporations
    /\ ignoredregions \in InitialIgnoredRegions
    /\ ent = [p \in Procs |-> <<>>]
    /\ last = NoCall
    /\ pend = [p \in Procs |-> <<>>]
    /\ scan = [p \in Procs |-> <<>>]
    /\ hist = [p \in Procs |-> NoHist]
    /\ race = [p \in Procs |-> NoRace]

\* the entity specification starts from an empty table or one stored row
InitEntities ==
    /\ Init
    /\ corporations \in {EmptyTable, [i \in {1} |-> Row(98765, 0, 0, StoredText)]}
    /\ ignoredregions = {[corporationID |-> 1, regionid |-> 10000002],
                         [corporationID |-> 2, regionid |-> 10000003]}

\* two callers, connected, working on organization 1
InitRace ==
    /\ conn = "open"
    /\ corporations \in {[i \in {1} |-> Row(98765, k, l, StoredText)] :
                            k \in Cursors, l \in Cursors}
    /\ ignoredregions = {[corporationID |-> 1, regionid |-> 10000002]}
    /\ ent = [p \in Procs |-> <<>>]
    /\ last = NoCall
    /\ pend = [p \in Procs |-> <<>>]
    /\ scan = [p \in Procs |-> <<>>]
    /\ hist = [p \in Procs |-> NoHist]
    /\ race = [p \in Procs |-> NoRace]

----------------------------------------------------------------------------
(* Actions: the callers *)

\* a caller builds a models.Corporation
NewEntity(p, id, eve, kill, loss) ==
    /\ Running /\ Idle(p)
    /\ ent' = [ent EXCEPT ![p] =
                  <<Entity(id, eve, kill, loss, CarriedText, CarriedRegions)>>]
    /\ last' = Call("NewEntity", p, 0, Result("ok", <<>>, <<>>), FALSE)
    /\ UNCHANGED <<conn, corporations, ignoredregions, pend, scan>>

\* a caller assigns a field of the entity it holds
Mutate(p, f, v) ==
    /\ Running /\ Idle(p)
    /\ Held(p)
    /\ E(p)[f] # v
    /\ ent' = [ent EXCEPT ![p] = <<[E(p) EXCEPT ![f] = v]>>]
    /\ last' = Call("Mutate", p, 0, Result("ok", <<>>, <<>>), FALSE)
    /\ UNCHANGED <<conn, corporations, ignoredregions, pend, scan>>

----------------------------------------------------------------------------
(* Actions: the methods of DatabaseConnection *)

ConnectStoringOnError(p, fail) ==
    /\ Running /\ Idle(p)
    /\ conn' = "open"
    /\ last' = Call("Connect", p, 0,
                    Result(IF fail THEN "err" ELSE "ok", <<>>, <<>>), FALSE)
    /\ UNCHANGED <<corporations, ignoredregions, ent, pend, scan>>

Connect(p, fail) ==
    /\ Running /\ Idle(p)
    /\ conn' = IF fail THEN conn ELSE "open"
    /\ last' = Call("Connect", p, 0,
                    Result(IF fail THEN "err" ELSE "ok", <<>>, <<>>), FALSE)
    /\ UNCHANGED <<corporations, ignoredregions, ent, pend, scan>>

\* a method that only reads: r is what it does on an open handle
ReadOnly(op, p, arg, r) ==
    /\ Running /\ Idle(p)
    /\ last' = Call(op, p, arg, IF conn = "nil" THEN NilHandle ELSE r, FALSE)
    /\ UNCHANGED <<conn, corporations, ignoredregions, ent, pend, scan>>

\* RawQuery runs the statement it is given, which may write
CallRawQuery(p, query, order, fault) ==
    LET r == RawQuery(corporations, ignoredregions, query, order, fault)
    IN  /\ Running /\ Idle(p)
        /\ order \in RawOrders(corporations, ignoredregions, query)
        /\ fault \in RawFaults(query, Len(order))
        /\ IF conn = "nil"
           THEN /\ last' = Call("RawQuery", p, 0, NilHandle, FALSE)
                /\ UNCHANGED <<corporations, ignoredregions>>
           ELSE /\ last' = Call("RawQuery", p, 0,
                                Result(r.outcome, r.ret, r.stmts), FALSE)
                /\ corporations' = r.corps
                /\ ignoredregions' = r.ign
        /\ UNCHANGED <<conn, ent, pend, scan>>

\* LoadAllCorporations up to the answer to its first statement: the call
\* returns the error, or the empty list when there is no row, or goes on to
\* the loop over the rows it read
CallLoadAllCorporations(p, ids, fail) ==
    LET g == LoadAllCorporationsSelect(corporations, ids, fail)
    IN  /\ Running /\ Idle(p)
        /\ ids \in Orders(DOMAIN corporations)
        /\ IF conn = "nil"
           THEN /\ last' = Call("LoadAllCorporations", p, 0, NilHandle, FALSE)
                /\ UNCHANGED scan
           ELSE IF g.outcome = "err" \/ Len(g.ret) = 0
           THEN /\ last' = Call("LoadAllCorporations", p, 0, g, FALSE)
                /\ UNCHANGED scan
           ELSE /\ last' = Call("LoadAllCorporations.Select", p, 0,
                                Result("ok", <<>>, g.stmts), FALSE)
                /\ scan' = [scan EXCEPT ![p] =
                               <<[list |-> g.ret, i |-> 1, stmts |-> g.stmts]>>]
        /\ UNCHANGED <<conn, corporations, ignoredregions, ent, pend>>

\* one pass of the loop of LoadAllCorporations: the secondary load of the next
\* row; the call returns the error, or the list after the last row
StepLoadAllCorporations(p, order, fail) ==
    /\ Running /\ Listing(p)
    /\ LET c == scan[p][1]
           r == LoadRegionsStep(c.list, c.i, ignoredregions, order, fail)
       IN  IF r.outcome = "err"
           THEN /\ last' = Call("LoadAllCorporations", p, 0,
                                Result("err", <<>>, c.stmts \o r.stmts), FALSE)
                /\ scan' = [scan EXCEPT ![p] = <<>>]
           ELSE IF c.i = Len(c.list)
           THEN /\ last' = Call("LoadAllCorporations", p, 0,
                                Result("ok", r.list, c.stmts \o r.stmts), FALSE)
                /\ scan' = [scan EXCEPT ![p] = <<>>]
           ELSE /\ last' = Call("LoadAllCorporations.Next", p, 0,
                                Result("ok", <<>>, c.stmts \o r.stmts), FALSE)
                /\ scan' = [scan EXCEPT ![p] =
                               <<[list |-> r.list, i |-> c.i + 1,
                                  stmts |-> c.stmts \o r.stmts]>>]
    /\ UNCHANGED <<conn, corporations, ignoredregions, ent, pend>>

CallLoadAllIgnoredRegionsForCorporation(p, id, order, fail) ==
    ReadOnly("LoadAllIgnoredRegionsForCorporation", p, id,
             LoadAllIgnoredRegionsForCorporation(ignoredregions, id, order, fail))

CallQueryShipName(p, shipTypeID, fail) ==
    ReadOnly("QueryShipName", p, shipTypeID, QueryShipName(shipTypeID, fail))

CallQueryRegionID(p, solarSystemID, fail) ==
    ReadOnly("QueryRegionID", p, solarSystemID, QueryRegionID(solarSystemID, fail))

\* the call before this one was the save that inserted the row now loaded
AfterInsert(p, id) ==
    /\ last.op = "SaveCorporation" /\ last.p = p /\ last.outcome = "ok"
    /\ last.stmts[1].stmt = "INSERT INTO corporations"
    /\ last.ret[1].ID = id

\* LoadCorporation up to the answer to its first statement: the call returns
\* the error, or goes on to load the ignored regions of the row it read
CallLoadCorporation(p, id, fail) ==
    LET g == LoadCorporationGet(corporations, id, fail)
    IN  /\ Running /\ Idle(p)
        /\ IF conn = "nil"
           THEN /\ last' = Call("LoadCorporation", p, id, NilHandle, FALSE)
                /\ UNCHANGED pend
           ELSE IF g.outcome = "err"
           THEN /\ last' = Call("LoadCorporation", p, id, g, AfterInsert(p, id))
                /\ UNCHANGED pend
           ELSE /\ last' = Call("LoadCorporation.Get", p, id,
                                Result("ok", <<>>, g.stmts), FALSE)
                /\ pend' = [pend EXCEPT ![p] =
                               <<[corporation |-> g.ret[1], id |-> id,
                                  stmts |-> g.stmts,
                                  roundtrip |-> AfterInsert(p, id)]>>]
        /\ UNCHANGED <<conn, corporations, ignoredregions, ent, scan>>

\* LoadCorporation from its second statement on; the caller keeps the entity
\* the call returns
ReturnLoadCorporation(p, order, fail) ==
    /\ Running /\ Loading(p)
    /\ LET c == pend[p][1]
           r == LoadCorporationReturn(
                    c.corporation, c.stmts,
                    LoadAllIgnoredRegionsForCorporation(
                        ignoredregions, c.corporation.ID, order, fail))
       IN  /\ last' = Call("LoadCorporation", p, c.id, r, c.roundtrip)
           /\ ent' = IF r.outcome = "ok" THEN [ent EXCEPT ![p] = r.ret] ELSE ent
    /\ pend' = [pend EXCEPT ![p] = <<>>]
    /\ UNCHANGED <<conn, corporations, ignoredregions, scan>>

\* the caller saves the entity it holds
CallSaveCorporation(p, fault) ==
    LET r == SaveCorporation(corporations, E(p), fault)
    IN  /\ Running /\ Idle(p)
        /\ Held(p)
        /\ E(p).ID > 0 \/ Cardinality(DOMAIN corporations) < MaxRows
        /\ fault <= (IF E(p).ID > 0 THEN 1 ELSE 2)
        /\ IF conn = "nil"
           THEN /\ last' = Call("SaveCorporation", p, E(p).ID, NilHandle, FALSE)
                /\ UNCHANGED <<corporations, ent>>
           ELSE /\ last' = Call("SaveCorporation", p, E(p).ID,
                                Result(r.outcome, r.ret, r.stmts), FALSE)
                /\ corporations' = r.corps
                /\ ent' = [ent EXCEPT ![p] = <<r.corporation>>]
        /\ UNCHANGED <<conn, ignoredregions, pend, scan>>

----------------------------------------------------------------------------
(* History *)

\* the history of the saves of p's entity, after a step of p
Saves(p) ==
    /\ hist' = [hist EXCEPT ![p] =
          IF last'.op = "NewEntity"
          THEN [NoHist EXCEPT !.origin = IF ent'[p][1].ID > 0 THEN "given"
                                         ELSE "unsaved"]
          ELSE IF last'.op = "LoadCorporation" /\ last'.outcome = "ok"
          THEN [NoHist EXCEPT !.origin = "loaded"]
          ELSE IF last'.op = "SaveCorporation"
          THEN [@ EXCEPT !.inserts = @ + Cardinality(DOMAIN corporations'
                                                     \ DOMAIN corporations),
                         !.failed = @ \/ last'.outcome = "err"]
          ELSE @]
    /\ UNCHANGED race

\* p's step is a successful save that wrote the row with this id
Wrote(p, id) ==
    /\ last'.op = "SaveCorporation" /\ last'.outcome = "ok"
    /\ E(p).ID = id /\ id \in DOMAIN corporations

\* the history of the callers' load-change-save sequences, after a step of p
Overlaps(p) ==
    /\ race' = [q \in Procs |->
          IF q = p
          THEN IF last'.op = "LoadCorporation.Get"
               THEN [race[p] EXCEPT !.early = FALSE]
               ELSE IF last'.op = "LoadCorporation" /\ last'.outcome = "ok"
               THEN [NoRace EXCEPT !.stale = race[p].early]
               ELSE IF last'.op = "Mutate"
               THEN [race[p] EXCEPT
                        !.dirty = @ \cup {f \in MutableFields :
                                             ent'[p][1][f] # ent[p][1][f]},
                        !.saved = FALSE]
               ELSE IF last'.op = "SaveCorporation" /\ last'.outcome = "ok"
               THEN [race[p] EXCEPT !.saved = TRUE]
               ELSE race[p]
          ELSE [race[q] EXCEPT
                   !.stale = @ \/ (Held(q) /\ Wrote(p, E(q).ID)),
                   !.early = @ \/ (Loading(q) /\ Wrote(p, pend[q][1].id))]]
    /\ UNCHANGED hist

----------------------------------------------------------------------------
(* Specifications *)

Value(f) == IF f = "EVECorporationID" THEN EveIDs ELSE Cursors

\* one caller building, loading, changing and saving entities; the entities it
\* builds carry lastLossID 7, the stored rows start with 0
Next ==
    \E p \in Sequential :
        \/ \E fail \in BOOLEAN : conn = "nil" /\ Connect(p, fail) /\ Saves(p)
        \/ \E id \in EntityIDs, eve \in EveIDs, kill \in Cursors :
              NewEntity(p, id, eve, kill, 7) /\ Saves(p)
        \/ \E f \in {"EVECorporationID", "LastKillID"} : \E v \in Value(f) :
              Mutate(p, f, v) /\ Saves(p)
        \/ \E id \in 1..(MaxRows + 1), fail \in BOOLEAN :
              CallLoadCorporation(p, id, fail) /\ Saves(p)
        \/ \E order \in Orders(Regions), fail \in BOOLEAN :
              ReturnLoadCorporation(p, order, fail) /\ Saves(p)
        \/ \E fault \in 0..2 : CallSaveCorporation(p, fault) /\ Saves(p)

Spec == InitEntities /\ [][Next]_vars

\* one caller using every method of the connector
NextQueries ==
    \E p \in Sequential :
        \/ \E fail \in BOOLEAN : Connect(p, fail) /\ UNCHANGED <<hist, race>>
        \/ \E id \in {0, 1} :
              NewEntity(p, id, 98766, 0, 42) /\ UNCHANGED <<hist, race>>
        \/ \E query \in RawQueries :
              \E order \in RawOrders(corporations, ignoredregions, query) :
                 \E fault \in RawFaults(query, Len(order)) :
                    CallRawQuery(p, query, order, fault)
                    /\ UNCHANGED <<hist, race>>
        \/ \E ids \in Orders(DOMAIN corporations), fail \in BOOLEAN :
              CallLoadAllCorporations(p, ids, fail) /\ UNCHANGED <<hist, race>>
        \/ \E order \in Orders(Regions), fail \in BOOLEAN :
              StepLoadAllCorporations(p, order, fail) /\ UNCHANGED <<hist, race>>
        \/ \E id \in EntityIDs, fail \in BOOLEAN :
              CallLoadCorporation(p, id, fail) /\ UNCHANGED <<hist, race>>
        \/ \E order \in Orders(Regions), fail \in BOOLEAN :
              ReturnLoadCorporation(p, order, fail) /\ UNCHANGED <<hist, race>>
        \/ \E id \in EntityIDs, order \in Orders(Regions), fail \in BOOLEAN :
              CallLoadAllIgnoredRegionsForCorporation(p, id, order, fail)
              /\ UNCHANGED <<hist, race>>
        \/ \E t \in ShipTypeIDs, fail \in BOOLEAN :
              CallQueryShipName(p, t, fail) /\ UNCHANGED <<hist, race>>
        \/ \E y \in SolarSystemIDs, fail \in BOOLEAN :
              CallQueryRegionID(p, y, fail) /\ UNCHANGED <<hist, race>>
        \/ \E fault \in 0..2 :
              CallSaveCorporation(p, fault) /\ UNCHANGED <<hist, race>>

\* starts from an empty table or one stored row, with two regions stored for
\* organization 1
InitQueries ==
    /\ Init
    /\ corporations \in {EmptyTable, [i \in {1} |-> Row(98765, 0, 0, StoredText)]}
    /\ ignoredregions = {[corporationID |-> 1, regionid |-> 10000002],
                         [corporationID |-> 1, regionid |-> 10000003]}

SpecQueries == InitQueries /\ [][NextQueries]_vars

\* two callers, each loading, changing and saving organization 1, not
\* serialized: a step of one caller may fall between the two statements of
\* the other's LoadCorporation
NextRace ==
    \E p \in Procs :
        \/ \E fail \in BOOLEAN : CallLoadCorporation(p, 1, fail) /\ Overlaps(p)
        \/ \E order \in Orders(Regions), fail \in BOOLEAN :
              ReturnLoadCorporation(p, order, fail) /\ Overlaps(p)
        \/ \E f \in CursorFields : \E v \in Cursors :
              Mutate(p, f, v) /\ Overlaps(p)
        \/ \E fault \in 0..1 : CallSaveCorporation(p, fault) /\ Overlaps(p)

SpecRace == InitRace /\ [][NextRace]_vars

\* two callers, connected, loading while the tables are written: a step of one
\* caller may fall between any two statements of the other's load
InitLoads ==
    /\ conn = "open"
    /\ corporations =
          [i \in {1, 2} |-> Row(IF i = 1 THEN 98765 ELSE 98766, 0, 0, StoredText)]
    /\ ignoredregions = {[corporationID |-> 1, regionid |-> 10000002],
                         [corporationID |-> 1, regionid |-> 10000003],
                         [corporationID |-> 2, regionid |-> 10000003]}
    /\ ent = [p \in Procs |-> <<>>]
    /\ last = NoCall
    /\ pend = [p \in Procs |-> <<>>]
    /\ scan = [p \in Procs |-> <<>>]
    /\ hist = [p \in Procs |-> NoHist]
    /\ race = [p \in Procs |-> NoRace]

NextLoads ==
    \E p \in Procs :
        \/ \E ids \in Orders(DOMAIN corporations), fail \in BOOLEAN :
              CallLoadAllCorporations(p, ids, fail) /\ UNCHANGED <<hist, race>>
        \/ \E order \in Orders(Regions), fail \in BOOLEAN :
              StepLoadAllCorporations(p, order, fail) /\ UNCHANGED <<hist, race>>
        \/ \E id \in 1..MaxRows, fail \in BOOLEAN :
              CallLoadCorporation(p, id, fail) /\ UNCHANGED <<hist, race>>
        \/ \E order \in Orders(Regions), fail \in BOOLEAN :
              ReturnLoadCorporation(p, order, fail) /\ UNCHANGED <<hist, race>>
        \/ \E query \in RawWrites \ {"UPDATE corporations SET evecorporationid=98766"} :
              \E fault \in {f \in RawFaults(query, 0) : f.kind # "columns"} :
                 CallRawQuery(p, query, <<>>, fault) /\ UNCHANGED <<hist, race>>

SpecLoads == InitLoads /\ [][NextLoads]_vars

----------------------------------------------------------------------------
(* Properties *)

SaveStmt == "SaveCorporation"
LoadStmt == "LoadCorporation"
InsertText == "INSERT INTO corporations"
UpdateText == "UPDATE corporations"
RegionsText == "SELECT regionid FROM ignoredregions WHERE corporationID=?"

\* the step is a call of SaveCorporation by the caller last'.p
IsSave == last'.op = SaveStmt /\ Held(last'.p)
\* the entity handed to the save of this step
Given == E(last'.p)

SameCursors(c, row) ==
    /\ row.evecorporationid = c.EVECorporationID
    /\ row.lastkillid = c.LastKillID
    /\ row.lastlossid = c.LastLossID

SameText(r1, r2) ==
    /\ r1.name = r2.name
    /\ r1.killcomment = r2.killcomment
    /\ r1.losscomment = r2.losscomment

\* C1: a new entity (ID unset) saved with success and then loaded by the
\* identifier the save wrote back comes back with the same external ID,
\* lastKillID and lastLossID; the load fails only if one of its statements does.
SameSaved(c, d) ==
    /\ c.ID = d.ID
    /\ c.EVECorporationID = d.EVECorporationID
    /\ c.LastKillID = d.LastKillID
    /\ c.LastLossID = d.LastLossID

RoundTripStep ==
    /\ (IsSave /\ Given.ID <= 0 /\ last'.outcome = "ok")
       => \A order \in Orders(Regions) :
             LET r == LoadCorporation(corporations', ignoredregions',
                                      last'.ret[1].ID, order, 0)
             IN  /\ r.outcome = "ok"
                 /\ SameSaved(r.ret[1], [Given EXCEPT !.ID = last'.ret[1].ID])
    /\ (/\ last'.op = LoadStmt /\ last'.roundtrip /\ last'.outcome = "ok"
        /\ Loading(last'.p) /\ Held(last'.p))
       => /\ SameSaved(last'.ret[1], E(last'.p))
          /\ ent'[last'.p] = last'.ret

C1_RoundTrip == [][RoundTripStep]_vars

C1_Witness ==
    /\ last.op = LoadStmt /\ last.outcome = "ok" /\ last.roundtrip
    /\ last.ret[1].LastKillID # last.ret[1].LastLossID
    /\ last.ret[1].EVECorporationID = 98766

\* C2: a save of an entity whose ID is greater than 0 leaves the number of
\* rows, every other row, the ignored-region rows and the name and comments of
\* its own row as they were, whatever the entity carries for them.
UpdateFrameStep ==
    (IsSave /\ Given.ID > 0)
    => /\ DOMAIN corporations' = DOMAIN corporations
       /\ ignoredregions' = ignoredregions
       /\ \A i \in DOMAIN corporations :
             IF i = Given.ID
             THEN SameText(corporations'[i], corporations[i])
             ELSE corporations'[i] = corporations[i]

C2_UpdateFrame == [][UpdateFrameStep]_vars

C2_Witness ==
    /\ last.op = SaveStmt /\ last.outcome = "ok"
    /\ last.arg \in DOMAIN corporations
    /\ Cardinality(DOMAIN corporations) = 2
    /\ corporations[last.arg].name = "Corp"
    /\ corporations[last.arg].lastkillid = 42
    /\ E(last.p).Name = "X"
    /\ E(last.p).IgnoredRegions = CarriedRegions

\* C3: a successful save of an entity whose ID is unset inserts exactly one
\* row, holding the entity's external ID and cursors, and writes the assigned
\* identifier into the entity it returns; an entity built with the ID unset
\* whose saves all succeeded has had at most one row inserted, and exactly one
\* once it carries an ID.
InsertStep ==
    (IsSave /\ Given.ID <= 0 /\ last'.outcome = "ok")
    => \E new \in DOMAIN corporations' \ DOMAIN corporations :
          /\ DOMAIN corporations' = DOMAIN corporations \cup {new}
          /\ \A i \in DOMAIN corporations : corporations'[i] = corporations[i]
          /\ SameCursors(Given, corporations'[new])
          /\ new > 0
          /\ ent'[last'.p][1].ID = new
          /\ last'.ret = ent'[last'.p]

InsertedOnce ==
    \A p \in Procs :
        (hist[p].origin = "unsaved" /\ ~hist[p].failed)
        => /\ hist[p].inserts <= 1
           /\ hist[p].inserts = 1 <=> E(p).ID > 0

C3_InsertOnce == []InsertedOnce /\ [][InsertStep]_vars

C3_Witness ==
    /\ last.op = SaveStmt /\ last.outcome = "ok"
    /\ last.stmts[1].stmt = UpdateText
    /\ hist[last.p].origin = "unsaved" /\ ~hist[last.p].failed
    /\ hist[last.p].inserts = 1

\* C4: a save that returns an error leaves the persisted rows as they were
\* before the call.
C4_FailedSaveNoEffect ==
    [][(last'.op = SaveStmt /\ last'.outcome = "err")
       => corporations' = corporations /\ ignoredregions' = ignoredregions]_vars

\* C5: LoadAllCorporations and LoadCorporation return either an error and no
\* entity, or entities each of whose IgnoredRegions holds exactly the regions
\* that were stored for its ID when the call selected them, whatever other
\* callers write between the statements of the call: every pass of the loop
\* fills the IgnoredRegions of its row with exactly the stored regions and
\* leaves the other rows as they are, and the call returns only after the pass
\* of the last row. LoadAllCorporations returns the rows its first select
\* read, which are all the rows stored at that moment.
ExactRegions(c) ==
    /\ Range(c.IgnoredRegions) =
          {r.regionid : r \in {x \in ignoredregions : x.corporationID = c.ID}}
    /\ Len(c.IgnoredRegions) = Cardinality(Range(c.IgnoredRegions))

IDs(list) == [k \in 1..Len(list) |-> list[k].ID]

AllOrNothing(r) ==
    IF r.outcome = "ok"
    THEN \A k \in 1..Len(r.ret) : ExactRegions(r.ret[k])
    ELSE r.outcome = "err" /\ Len(r.ret) = 0

\* the call run on the tables of one state
AllOrNothingAtOnce ==
    /\ \A ids \in Orders(DOMAIN corporations), order \in Orders(Regions),
          fault \in 0..(MaxRows + 1) :
          LET r == LoadAllCorporations(corporations, ignoredregions, ids, order,
                                       fault)
          IN  /\ AllOrNothing(r)
              /\ r.outcome = "ok" => IDs(r.ret) = ids
    /\ \A id \in DOMAIN corporations, order \in Orders(Regions), fault \in 0..2 :
          AllOrNothing(LoadCorporation(corporations, ignoredregions, id, order,
                                       fault))

\* the list after a pass of the loop over the list before it
Filled(after, before, i) ==
    /\ Len(after) = Len(before)
    /\ \A k \in 1..Len(before) :
          IF k = i
          THEN /\ ExactRegions(after[k])
               /\ after[k] = [before[k] EXCEPT
                                 !.IgnoredRegions = after[k].IgnoredRegions]
          ELSE after[k] = before[k]

\* the call run statement by statement
AllOrNothingStep ==
    /\ last'.op = "LoadAllCorporations.Select"
       => /\ Range(IDs(scan'[last'.p][1].list)) = DOMAIN corporations
          /\ Len(scan'[last'.p][1].list) = Cardinality(DOMAIN corporations)
          /\ scan'[last'.p][1].i = 1
    /\ (last'.op = "LoadAllCorporations.Next" /\ Listing(last'.p))
       => /\ Filled(scan'[last'.p][1].list, scan[last'.p][1].list,
                    scan[last'.p][1].i)
          /\ scan'[last'.p][1].i = scan[last'.p][1].i + 1
    /\ (last'.op = "LoadAllCorporations" /\ last'.outcome = "ok")
       => IF Listing(last'.p)
          THEN /\ Filled(last'.ret, scan[last'.p][1].list, scan[last'.p][1].i)
               /\ scan[last'.p][1].i = Len(last'.ret)
          ELSE Len(last'.ret) = 0 /\ DOMAIN corporations = {}
    /\ (last'.op = LoadStmt /\ last'.outcome = "ok")
       => Len(last'.ret) = 1 /\ ExactRegions(last'.ret[1])
    /\ (/\ last'.op \in {"LoadAllCorporations", LoadStmt}
        /\ last'.outcome \notin {"ok", "panic"})
       => last'.outcome = "err" /\ Len(last'.ret) = 0

C6_ExternalIDImmutable ==
    [][\A i \in DOMAIN corporations :
          corporations'[i].evecorporationid = corporations[i].evecorporationid]_vars

\* C6 as amended: in a sequence of loads, changes of the entity and saves, the
\* external ID stored in a row is changed only by a successful save of an
\* entity with that row's ID, and every such save sets it to the external ID
\* the entity carries.
ExternalIDStep ==
    \A i \in DOMAIN corporations :
        /\ corporations'[i].evecorporationid # corporations[i].evecorporationid
           => /\ IsSave /\ last'.outcome = "ok"
              /\ Given.ID = i
        /\ (IsSave /\ last'.outcome = "ok" /\ Given.ID = i)
           => corporations'[i].evecorporationid = Given.EVECorporationID

C6_ExternalIDFollowsSave == [][ExternalIDStep]_vars

C6_Witness ==
    /\ last.op = SaveStmt /\ last.outcome = "ok" /\ last.arg = 1
    /\ 1 \in DOMAIN corporations
    /\ corporations[1].name = "Corp"
    /\ corporations[1].evecorporationid = 98766

\* C7 as claimed: while no Connect has succeeded, every other method returns
\* an error and no data.
CallerOps == {"none", "Connect", "NewEntity", "Mutate"}

C7_NilHandleReturnsError ==
    (conn = "nil" /\ last.op \notin CallerOps)
    => last.outcome = "err" /\ Len(last.ret) = 0

\* C7 as amended: while no Connect has succeeded, every other method panics
\* on the nil handle: it returns nothing, runs no statement and leaves the
\* tables as they were; the handle is stored by a successful Connect and by
\* nothing else.
NilHandleStep ==
    /\ (conn = "nil" /\ last'.op \notin CallerOps)
       => /\ last'.outcome = "panic"
          /\ Len(last'.ret) = 0 /\ Len(last'.stmts) = 0
          /\ corporations' = corporations /\ ignoredregions' = ignoredregions
          /\ conn' = "nil"
    /\ conn' # conn => last'.op = "Connect" /\ last'.outcome = "ok"
    /\ (last'.op = "Connect" /\ last'.outcome = "err") => conn' = conn
    /\ (last'.op = "Connect" /\ last'.outcome = "ok") => conn' = "open"

C7_NilHandlePanics == [][NilHandleStep]_vars

C7_Witness ==
    /\ conn = "nil" /\ last.op = SaveStmt /\ last.outcome = "panic"
    /\ Held(last.p) /\ E(last.p).ID = last.arg

\* C8: on an open handle, LoadCorporation with an ID that matches no row
\* returns an error and no entity and runs no ignored-region query; when it
\* returns an entity, that entity is the row with the requested ID.
C8_LoadMissing ==
    (last.op = LoadStmt /\ last.outcome # "panic")
    => /\ last.arg \notin DOMAIN corporations
          => /\ last.outcome = "err" /\ Len(last.ret) = 0
             /\ \A k \in 1..Len(last.stmts) : last.stmts[k].stmt # RegionsText
       /\ last.outcome = "ok"
          => /\ last.arg \in DOMAIN corporations
             /\ last.ret[1].ID = last.arg
             /\ SameCursors(last.ret[1], corporations[last.arg])

C8_Witness ==
    /\ last.op = LoadStmt /\ last.outcome = "err" /\ conn = "open"
    /\ last.arg \notin DOMAIN corporations
    /\ DOMAIN corporations = {1}
    /\ last.arg = 2

\* C9: a successful save of a loaded entity whose row no other caller's save
\* wrote since the load stores the cursors the caller changed and leaves the
\* other cursor as stored (serialized sequences lose no update); the witness
\* is the state interleaved sequences reach, where a caller's stale value has
\* overwritten a cursor another caller changed and saved.
Column(f) == IF f = "LastKillID" THEN "lastkillid" ELSE "lastlossid"

SerializedStep ==
    (/\ IsSave /\ last'.outcome = "ok"
     /\ Given.ID \in DOMAIN corporations
     /\ ~race[last'.p].stale)
    => \A f \in CursorFields :
          IF f \in race[last'.p].dirty
          THEN corporations'[Given.ID][Column(f)] = Given[f]
          ELSE corporations'[Given.ID][Column(f)] = corporations[Given.ID][Column(f)]

C9_SerializedKeepsUpdates == [][SerializedStep]_vars

C9_LostUpdate ==
    \E p \in Procs, q \in Procs :
        /\ p # q
        /\ last.op = SaveStmt /\ last.outcome = "ok" /\ last.p = p
        /\ race[p].stale /\ race[p].dirty # {}
        /\ race[q].saved
        /\ \E f \in race[q].dirty \ race[p].dirty :
              /\ corporations[1][Column(f)] = E(p)[f]
              /\ corporations[1][Column(f)] # E(q)[f]

\* C10: a save of an entity whose ID is greater than 0 and matches no row
\* persists nothing, returns the entity without an error unless the UPDATE
\* statement itself fails, and a load with that ID still fails.
MissingRowStep ==
    (IsSave /\ conn = "open" /\ Given.ID > 0 /\ Given.ID \notin DOMAIN corporations)
    => /\ corporations' = corporations
       /\ SaveCorporation(corporations, Given, 0).outcome = "ok"
       /\ last'.outcome = "ok"
          => /\ last'.ret = <<Given>>
             /\ \A order \in Orders(Regions) :
                   LoadCorporation(corporations', ignoredregions', Given.ID,
                                   order, 0).outcome = "err"

C10_UpdateOfMissingRow == [][MissingRowStep]_vars

C10_Witness ==
    /\ last.op = SaveStmt /\ last.outcome = "ok"
    /\ last.arg > 0 /\ last.arg \notin DOMAIN corporations
    /\ E(last.p).ID = last.arg

====
